---- MODULE Spec2Model ----
(***************************************************************************)
(* Verification model of parts of the tempest test suite:                  *)
(*   - the live-migration verification flow, its request and the           *)
(*     serial-console check                                                *)
(*     (tempest/api/compute/admin/test_live_migration.py),                 *)
(*   - the identity endpoint tests                                         *)
(*     (tempest/api/identity/admin/v3/test_endpoints.py),                  *)
(*   - the volume backup scenario and its cleanup stack                    *)
(*     (tempest/api/volume/test_volumes_backup.py),                        *)
(*   - the derivation of the v3.57 volume-transfer response schemas        *)
(*     (tempest/lib/api_schema/response/volume/v3_57/transfers.py).        *)
(* The remote cloud is an opaque collaborator: it is modelled as a         *)
(* nondeterministic environment that answers the calls the tests make.     *)
(***************************************************************************)
EXTENDS Integers, Sequences, FiniteSets, TLC

\* ------------------------------------------------------------------ bounds

\* Length of the migration listing that exists before the test starts.
MaxPrior == 2
\* The waiter's polling interval and overall deadline, in time units
\* (client.build_interval / client.build_timeout of the deployment).
Interval == 1
Deadline == 2
\* In-place edits made to the v3.57 schemas after the module is imported.
MaxEdits == 1
\* The time budget of the console loop, in sleep intervals (120.0 / 0.1 in
\* the source, lines 350-358).
MaxTicks == 3
\* Calls made to the identity service by clients other than the test class.
MaxOther == 2

\* ------------------------------------------------------- values and names

None == "None"
Hosts == {"H1", "H2", "H3"}
ServerId == "srv"
OtherId == "other"
Instances == {ServerId, OtherId}

\* The test classes that derive from LiveMigrationTestBase, with the value of
\* their block_migration class attribute ("missing": no such attribute).
LiveMigrationTest == [name |-> "LiveMigrationTest", block_migration |-> None]
LiveAutoBlockMigrationV225Test ==
    [name |-> "LiveAutoBlockMigrationV225Test", block_migration |-> "auto"]
LiveMigrationRemoteConsolesV26Test ==
    [name |-> "LiveMigrationRemoteConsolesV26Test", block_migration |-> "missing"]

VARIABLES
    \* ---- live-migration flow: the test's own state
    cls,            \* the test class that runs
    entry,          \* "_test_live_migration" or "direct" (a test calling _live_migrate itself)
    conf,           \* CONF.compute_feature_enabled flags read by the flow
    state,          \* the state parameter: "ACTIVE" or "PAUSED"
    pc,             \* position of the test
    flow,           \* number of the running _live_migrate call (0: none yet)
    testSource,     \* source_host of _test_live_migration (line 121)
    destHost,       \* destination_host of _test_live_migration
    lmTarget,       \* target_host of the running _live_migrate
    lmSource,       \* source_host of the running _live_migrate ("unset" when not read)
    migration_list, \* the listing fetched at line 81
    msg,            \* the message built at lines 84-89
    reportedHost,   \* host returned by the final get_host_for_server
    failure,        \* the failure the test reports: [kind, msg]
    passed1,        \* the first _live_migrate call has returned
    startHost,      \* the host the server was on when the test started
    \* ---- the remote system
    srv,            \* the server: [status, host, task, steady, dest]
    migrations,     \* the remote's migration records, in listing order
    \* ---- the waiter
    wtarget,        \* status waited for
    wret,           \* where the caller continues
    wphase,         \* "poll" or "sleep"
    elapsed,        \* time since the wait started
    polls,          \* polls made by the running wait
    tgtAt,          \* {k}: the status was the target after k intervals; {}: not yet
    wres,           \* outcome of the last wait: "none", "ok", "timeout"
    trace           \* the calls the test made to the remote, in order: [ev, arg]

VARIABLES
    \* ---- a test with cleanups (volume backup tests, test_update_endpoint)
    bkTest,         \* name of the running test method ("off": none)
    bpc,            \* index of the next statement of the test body
    bkPhase,        \* "body", "cleanup" or "done"
    bkOutcome,      \* "running", "passed" or the kind of failure raised by the body
    created,        \* the resource-creating calls that have returned
    cleanups,       \* the cleanup stack of the test
    registered,     \* every action passed to addCleanup, in order
    executed,       \* the cleanup actions run, in order
    cleanupErrors,  \* the cleanup actions that raised
    observed        \* the status waits that returned, in order

bkVars == <<bkTest, bpc, bkPhase, bkOutcome, created, cleanups, registered,
            executed, cleanupErrors, observed>>

VARIABLES
    \* ---- the v3.57 transfer schema module and the objects it works on
    heap,           \* the objects: heap[a] is the dict or list at address a
    uuid_or_null,   \* address of parameter_types.uuid_or_null
    v355,           \* the v3.55 module: schema name -> address
    v357,           \* the v3.57 module: schema name -> address (0: not yet bound)
    ipc,            \* index of the next statement of the v3.57 module
    edits,          \* in-place edits made to v3.57 schemas after the import
    aliased,        \* the v3.55 show/list schemas hold the v3.55 common schema itself
    lastEdit,       \* address of the object the last edit changed (0: none)
    touched         \* where the edited objects were reachable from when edited

scVars == <<heap, uuid_or_null, v355, v357, ipc, edits, aliased, lastEdit, touched>>

VARIABLES
    \* ---- _verify_console_interaction (serial console over a websocket)
    wcall,          \* number of the running call (0: none yet)
    wpc,            \* position inside the call
    conns,          \* the connections the call opened: "open" or "closed"
    ws,             \* the local ws: index into conns (0: unbound)
    ticks,          \* t, in sleep intervals
    found,          \* data in console_output
    pending,        \* the exception in flight while the finally clause runs
    wsFailure       \* the exception the call raised ("none": none)

wsVars == <<wcall, wpc, conns, ws, ticks, found, pending, wsFailure>>

VARIABLES
    \* ---- EndPointsTestJSON and the identity service
    store,          \* ids of the endpoints the identity service holds
    nextId,         \* the id the next create_endpoint returns
    setup_endpoints,\* cls.setup_endpoints: ids, in order
    toRun,          \* the test methods still to run
    epTest,         \* the running test method ("none": between tests)
    epc,            \* position inside the running test
    endpoint,       \* id of the endpoint created at line 77 (0: not yet)
    deleted,        \* delete_endpoint(endpoint['id']) has returned
    listings,       \* the results of list_endpoints: [stage, ids], in order
    epFailed,       \* the tests that failed
    others          \* calls made by other clients

epVars == <<store, nextId, setup_endpoints, toRun, epTest, epc, endpoint, deleted,
            listings, epFailed, others>>

VARIABLES
    \* ---- one call of _migrate_server_to
    rqIn,           \* the inputs of the call
    rqPc,           \* "off", "call" or "done"
    rqOut           \* what the call did: [raised, sent]

rqVars == <<rqIn, rqPc, rqOut>>

lmVars == <<cls, entry, conf, state, pc, flow, testSource, destHost, lmTarget,
            lmSource, migration_list, msg, reportedHost, failure, passed1,
            startHost, srv, migrations, wtarget, wret, wphase, elapsed, polls, tgtAt, wres,
            trace>>

vars == <<lmVars, bkVars, scVars, wsVars, epVars, rqVars>>

\* What the steps of one part leave alone.
notLM == <<bkVars, scVars, wsVars, epVars, rqVars>>
notBK == <<lmVars, scVars, wsVars, epVars, rqVars>>
notSC == <<lmVars, bkVars, wsVars, epVars, rqVars>>
notWS == <<lmVars, bkVars, scVars, epVars, rqVars>>
notEP == <<lmVars, bkVars, scVars, wsVars, rqVars>>
notRQ == <<lmVars, bkVars, scVars, wsVars, epVars>>

\* A call made to the remote, with the server status at that moment.
Event(e, a) == [ev |-> e, arg |-> a]

NoMsg == [server |-> None, records |-> <<>>]
NoFailure == [kind |-> "none", msg |-> NoMsg]

\* ------------------------------------------------------------ the remote

\* A migration record as listed by list_migrations.
MigrationRecord(n, inst) == [id |-> n, instance_uuid |-> inst]

\* All listings of length n whose k-th record has id k.
RECURSIVE Listings(_)
Listings(n) ==
    IF n = 0 THEN {<<>>}
    ELSE {Append(l, MigrationRecord(n, i)) : l \in Listings(n - 1), i \in Instances}

PriorListings == UNION {Listings(n) : n \in 0..MaxPrior}

\* The remote accepts pause_server: the status changes later.
RemotePause(s) == [s EXCEPT !.task = "pausing"]

\* The remote accepts live_migrate_server: a migration record is created,
\* the status changes later.
RemoteAccept(s, host) == [s EXCEPT !.task = "queued", !.dest = host, !.steady = s.status]

\* One step of the remote's own progress.
RemoteSteps(s) ==
    CASE s.task = "pausing" ->
            {[s EXCEPT !.status = "PAUSED", !.task = "none"]}
      [] s.task = "queued" ->
            {[s EXCEPT !.status = "MIGRATING", !.task = "migrating"]}
      [] s.task = "migrating" ->
            {[s EXCEPT !.status = s.steady, !.task = "none", !.host = h, !.dest = None] :
                h \in (IF s.dest = None THEN Hosts ELSE {s.dest, s.host})}
      [] OTHER -> {}

\* What the remote may have become while the caller slept one interval.
RemoteDuringSleep(s) ==
    LET one == RemoteSteps(s)
        two == UNION {RemoteSteps(t) : t \in one}
    IN {s} \cup one \cup two

\* ------------------------------------------------- the failure message

\* Lines 86-88: the loop over the listing, appending the records of the server.
\* Mutant: the loop without the instance_uuid test of line 87.
MsgRecordsUnfiltered(list, server_id) == list

RECURSIVE MsgRecords(_, _)
MsgRecords(list, server_id) ==
    IF list = <<>> THEN <<>>
    ELSE LET live_migration == Head(list)
             rest == MsgRecords(Tail(list), server_id)
         IN IF live_migration.instance_uuid = server_id
            THEN <<live_migration>> \o rest
            ELSE rest

\* Lines 84-89.
BuildMsg(list, server_id) ==
    [server |-> server_id, records |-> MsgRecords(list, server_id)]

\* ------------------------------------------------------------ the waiter

WaitStart(target, ret) ==
    /\ wtarget' = target
    /\ wret' = ret
    /\ wphase' = "poll"
    /\ elapsed' = 0
    /\ polls' = 0
    /\ tgtAt' = {}
    /\ wres' = "none"

TimeoutFailure == [kind |-> "TimeoutException", msg |-> NoMsg]

\* Mutant: the waiter gives up one interval early.
TimedOutEarly(t) == t + Interval >= Deadline

\* Mutant: the waiter gives up one interval late.
TimedOutLate(t) == t > Deadline + Interval

\* The deadline is exceeded.
TimedOut(t) == t > Deadline

\* Mutant: _live_migrate adds the migration records to a timeout of its wait.
RaisedFromWithRecords(ret, f) ==
    IF ret = "lm_list" THEN [f EXCEPT !.msg = BuildMsg(migrations, ServerId)] ELSE f

\* Lines 80 and 130: the callers of the waiter do not catch its exception,
\* which is the failure the test reports.
RaisedFrom(ret, f) == f

\* Fetch the status; succeed at once when it is the target.
WaitPoll ==
    /\ pc = "wait" /\ wphase = "poll"
    /\ polls' = polls + 1
    /\ tgtAt' = IF tgtAt = {} /\ srv.status = wtarget
                THEN {elapsed \div Interval} ELSE tgtAt
    /\ IF srv.status = wtarget
       THEN /\ pc' = wret
            /\ wres' = "ok"
            /\ UNCHANGED wphase
       ELSE /\ wphase' = "sleep"
            /\ UNCHANGED <<pc, wres>>
    /\ trace' = IF srv.status = wtarget
                THEN Append(trace, Event("wait_returned", srv.status)) ELSE trace
    /\ UNCHANGED notLM
    /\ UNCHANGED <<cls, entry, conf, state, startHost, flow, testSource, destHost, lmTarget,
                   lmSource, migration_list, msg, reportedHost, failure, passed1,
                   srv, migrations, wtarget, wret, elapsed>>

\* Sleep one interval, then fail when the deadline is exceeded.
WaitSleep ==
    /\ pc = "wait" /\ wphase = "sleep"
    /\ elapsed' = elapsed + Interval
    /\ \E s \in RemoteDuringSleep(srv) :
        /\ srv' = s
        /\ tgtAt' = IF tgtAt = {} /\ s.status = wtarget
                    THEN {elapsed' \div Interval} ELSE tgtAt
    /\ IF TimedOut(elapsed')
       THEN /\ pc' = "failed"
            /\ wres' = "timeout"
            /\ failure' = RaisedFrom(wret, TimeoutFailure)
            /\ UNCHANGED wphase
       ELSE /\ wphase' = "poll"
            /\ UNCHANGED <<pc, wres, failure>>
    /\ UNCHANGED notLM
    /\ UNCHANGED <<trace, cls, entry, conf, state, startHost, flow, testSource, destHost, lmTarget,
                   lmSource, migration_list, msg, reportedHost, passed1,
                   migrations, wtarget, wret, polls>>

\* --------------------------------------------------- _test_live_migration

Entries ==
    {[cls |-> c, entry |-> "_test_live_migration", state |-> s] :
        c \in {LiveMigrationTest, LiveAutoBlockMigrationV225Test},
        s \in {"ACTIVE", "PAUSED"}}
    \cup
    {[cls |-> c, entry |-> "direct", state |-> "ACTIVE"] :
        c \in {LiveMigrationTest, LiveMigrationRemoteConsolesV26Test}}

Confs ==
    [can_migrate_between_any_hosts : BOOLEAN, live_migrate_back_and_forth : BOOLEAN]

InitLM ==
    /\ \E e \in Entries : cls = e.cls /\ entry = e.entry /\ state = e.state
    /\ conf \in Confs
    /\ pc = "start"
    /\ flow = 0
    /\ testSource = None
    /\ destHost = None
    /\ lmTarget = None
    /\ lmSource = "unset"
    /\ migration_list = <<>>
    /\ msg = NoMsg
    /\ reportedHost = None
    /\ failure = NoFailure
    /\ passed1 = FALSE
    /\ startHost \in Hosts
    /\ srv = [status |-> "ACTIVE", host |-> startHost, task |-> "none",
              steady |-> "ACTIVE", dest |-> None]
    /\ migrations \in PriorListings
    /\ wtarget = None
    /\ wret = None
    /\ wphase = "poll"
    /\ elapsed = 0
    /\ polls = 0
    /\ tgtAt = {}
    /\ wres = "none"
    /\ trace = <<>>

\* get_host_for_server
HostForServer == srv.host

\* get_host_other_than
HostsOtherThan == Hosts \ {srv.host}

\* Lines 119-126: the server exists and is ACTIVE; read its host, pick the target.
TestStart ==
    /\ pc = "start" /\ entry = "_test_live_migration"
    /\ testSource' = HostForServer
    /\ \E d \in (IF conf.can_migrate_between_any_hosts THEN HostsOtherThan ELSE {None}) :
        destHost' = d
    /\ pc' = IF state = "PAUSED" THEN "pause" ELSE "call1"
    /\ UNCHANGED notLM
    /\ UNCHANGED <<trace, cls, entry, conf, state, startHost, flow, lmTarget, lmSource, migration_list,
                   msg, reportedHost, failure, passed1, srv, migrations,
                   wtarget, wret, wphase, elapsed, polls, tgtAt, wres>>

\* Mutant: line 135 follows pause_server without the wait of line 130.
AfterPauseNoWait == "call1"

\* Line 130: pause_server is followed by the wait for PAUSED.
AfterPause == "wait"

\* Lines 128-131: pause the server and wait for PAUSED.
TestPause ==
    /\ pc = "pause"
    /\ srv' = RemotePause(srv)
    /\ pc' = AfterPause
    /\ WaitStart(state, "call1")
    /\ trace' = Append(trace, Event("pause_server", srv.status))
    /\ UNCHANGED notLM
    /\ UNCHANGED <<cls, entry, conf, state, startHost, flow, testSource, destHost, lmTarget,
                   lmSource, migration_list, msg, reportedHost, failure, passed1,
                   migrations>>

\* Line 135: the first _live_migrate call.
TestMigrate ==
    /\ pc = "call1"
    /\ flow' = 1
    /\ lmTarget' = destHost
    /\ lmSource' = "unset"
    /\ pc' = "lm_source"
    /\ migration_list' = <<>>
    /\ msg' = NoMsg
    /\ UNCHANGED notLM
    /\ UNCHANGED <<trace, cls, entry, conf, state, startHost, testSource, destHost,
                   reportedHost, failure, passed1, srv, migrations,
                   wtarget, wret, wphase, elapsed, polls, tgtAt, wres>>

\* Mutant: the second call passes destination_host again.
BackTargetDestination == destHost

\* The target the back-and-forth call passes (line 141).
BackTarget == testSource

\* Lines 136-141: with live_migrate_back_and_forth, migrate back to the source.
TestMigrateBack ==
    /\ pc = "after1" /\ conf.live_migrate_back_and_forth
    /\ flow' = 2
    /\ lmTarget' = BackTarget
    /\ lmSource' = "unset"
    /\ pc' = "lm_source"
    /\ migration_list' = <<>>
    /\ msg' = NoMsg
    /\ UNCHANGED notLM
    /\ UNCHANGED <<trace, cls, entry, conf, state, startHost, testSource, destHost,
                   reportedHost, failure, passed1, srv, migrations,
                   wtarget, wret, wphase, elapsed, polls, tgtAt, wres>>

\* Line 136 with the flag off: the test is over.
TestDone ==
    /\ pc = "after1" /\ ~conf.live_migrate_back_and_forth
    /\ pc' = "passed"
    /\ UNCHANGED notLM
    /\ UNCHANGED <<trace, cls, entry, conf, state, startHost, flow, testSource, destHost, lmTarget,
                   lmSource, migration_list, msg, reportedHost, failure, passed1,
                   srv, migrations, wtarget, wret, wphase, elapsed, polls, tgtAt, wres>>

\* A test that calls _live_migrate itself with state 'ACTIVE'
\* (lines 194-208, 275-282, 320-336): explicit target or None.
DirectCall ==
    /\ pc = "start" /\ entry = "direct"
    /\ \E t \in (IF cls = LiveMigrationRemoteConsolesV26Test
                    \/ conf.can_migrate_between_any_hosts
                 THEN HostsOtherThan ELSE {None}) :
        lmTarget' = t
    /\ flow' = 1
    /\ lmSource' = "unset"
    /\ pc' = "lm_source"
    /\ migration_list' = <<>>
    /\ msg' = NoMsg
    /\ UNCHANGED notLM
    /\ UNCHANGED <<trace, cls, entry, conf, state, startHost, testSource, destHost,
                   reportedHost, failure, passed1, srv, migrations,
                   wtarget, wret, wphase, elapsed, polls, tgtAt, wres>>

\* ------------------------------------------------------------ _live_migrate

\* Lines 77-78: without a target, remember the host before the migration.
LMReadSource ==
    /\ pc = "lm_source"
    /\ lmSource' = IF lmTarget = None THEN HostForServer ELSE "unset"
    /\ pc' = "lm_migrate"
    /\ UNCHANGED notLM
    /\ UNCHANGED <<trace, cls, entry, conf, state, startHost, flow, testSource, destHost, lmTarget,
                   migration_list, msg, reportedHost, failure, passed1, srv,
                   migrations, wtarget, wret, wphase, elapsed, polls, tgtAt, wres>>

\* Line 63: self.block_migration raises AttributeError when no class in the
\* hierarchy defines the attribute.
HasBlockMigration(c) == c.block_migration # "missing"

\* Lines 79 and 60-71: _migrate_server_to sends the live-migrate request;
\* line 80 then enters the status wait.
LMMigrate ==
    /\ pc = "lm_migrate"
    /\ IF HasBlockMigration(cls)
       THEN /\ srv' = RemoteAccept(srv, lmTarget)
            /\ migrations' = Append(migrations,
                                    MigrationRecord(Len(migrations) + 1, ServerId))
            /\ pc' = "wait"
            /\ WaitStart(state, "lm_list")
            /\ UNCHANGED failure
       ELSE /\ pc' = "failed"
            /\ failure' = [kind |-> "AttributeError", msg |-> NoMsg]
            /\ UNCHANGED <<srv, migrations, wtarget, wret, wphase, elapsed,
                           polls, tgtAt, wres>>
    /\ trace' = IF HasBlockMigration(cls)
                THEN Append(trace, Event("live_migrate", srv.status)) ELSE trace
    /\ UNCHANGED notLM
    /\ UNCHANGED <<cls, entry, conf, state, startHost, flow, testSource, destHost, lmTarget,
                   lmSource, migration_list, msg, reportedHost, passed1>>

\* Lines 81-89: fetch the migration listing and build the failure message.
LMList ==
    /\ pc = "lm_list"
    /\ migration_list' = migrations
    /\ msg' = BuildMsg(migrations, ServerId)
    /\ pc' = "lm_assert"
    /\ trace' = Append(trace, Event("list_migrations", srv.status))
    /\ UNCHANGED notLM
    /\ UNCHANGED <<cls, entry, conf, state, startHost, flow, testSource, destHost, lmTarget,
                   lmSource, reportedHost, failure, passed1, srv, migrations,
                   wtarget, wret, wphase, elapsed, polls, tgtAt, wres>>

\* Mutant: assertNotEqual in place of assertEqual at line 94.
PlacementOkNegated(target, source, host) ==
    IF target = None THEN source # host ELSE target # host

\* Mutant: assertEqual in place of assertNotEqual at line 91.
PlacementOkSame(target, source, host) ==
    IF target = None THEN source = host ELSE target = host

\* Lines 90-95: the expected post-condition on the reported host.
PlacementOk(target, source, host) ==
    IF target = None THEN source # host ELSE target = host

\* Lines 90-95: query the host and assert the placement; the message is
\* reported with a failing assertion.
LMAssert ==
    /\ pc = "lm_assert"
    /\ reportedHost' = HostForServer
    /\ IF PlacementOk(lmTarget, lmSource, HostForServer)
       THEN /\ pc' = IF entry = "_test_live_migration" /\ flow = 1
                     THEN "after1" ELSE "passed"
            /\ passed1' = TRUE
            /\ UNCHANGED failure
       ELSE /\ pc' = "failed"
            /\ failure' = [kind |-> "AssertionError", msg |-> msg]
            /\ UNCHANGED passed1
    /\ trace' = Append(trace, Event("final_host_query", srv.status))
    /\ UNCHANGED notLM
    /\ UNCHANGED <<cls, entry, conf, state, startHost, flow, testSource, destHost, lmTarget,
                   lmSource, migration_list, msg, srv, migrations,
                   wtarget, wret, wphase, elapsed, polls, tgtAt, wres>>

\* The remote progresses on its own while the test is not inside the polling
\* loop (inside the loop its progress is part of WaitSleep).
RemoteStep ==
    /\ pc \notin {"passed", "failed"}
    /\ pc # "wait" \/ polls = 0
    /\ \E s \in RemoteSteps(srv) : srv' = s
    /\ UNCHANGED notLM
    /\ UNCHANGED <<trace, cls, entry, conf, state, startHost, pc, flow, testSource, destHost, lmTarget,
                   lmSource, migration_list, msg, reportedHost, failure, passed1,
                   migrations, wtarget, wret, wphase, elapsed, polls, tgtAt, wres>>

NextLM ==
    \/ TestStart
    \/ TestPause
    \/ TestMigrate
    \/ TestMigrateBack
    \/ TestDone
    \/ DirectCall
    \/ LMReadSource
    \/ LMMigrate
    \/ LMList
    \/ LMAssert
    \/ WaitPoll
    \/ WaitSleep
    \/ RemoteStep

\* No live-migration test runs.
IdleLM ==
    /\ cls = LiveMigrationTest /\ entry = "direct" /\ state = "ACTIVE"
    /\ conf = [can_migrate_between_any_hosts |-> FALSE,
               live_migrate_back_and_forth |-> FALSE]
    /\ pc = "off"
    /\ flow = 0
    /\ testSource = None
    /\ destHost = None
    /\ lmTarget = None
    /\ lmSource = "unset"
    /\ migration_list = <<>>
    /\ msg = NoMsg
    /\ reportedHost = None
    /\ failure = NoFailure
    /\ passed1 = FALSE
    /\ startHost = "H1"
    /\ srv = [status |-> "ACTIVE", host |-> "H1", task |-> "none",
              steady |-> "ACTIVE", dest |-> None]
    /\ migrations = <<>>
    /\ wtarget = None
    /\ wret = None
    /\ wphase = "poll"
    /\ elapsed = 0
    /\ polls = 0
    /\ tgtAt = {}
    /\ wres = "none"
    /\ trace = <<>>

\* ------------------------------------------------- tests with cleanups

\* A statement of a test body: a client call (may raise), an assertion (may
\* fail), a status wait (may time out) or an addCleanup registration.
Stmt(op, arg, line) == [op |-> op, arg |-> arg, line |-> line]

\* Mutant: restore_backup registers the deletion only after its waits.
RestoreBackupLateCleanup ==
    << Stmt("call", "restore_backup", 42),
       Stmt("assert", "backup_id", 48),
       Stmt("wait", "backup available", 49),
       Stmt("wait", "restored volume available", 51),
       Stmt("addCleanup", "delete_volume(restored)", 46) >>

\* Mutant: restore_backup waits for the restored volume before the backup.
RestoreBackupVolumeFirst ==
    << Stmt("call", "restore_backup", 42),
       Stmt("addCleanup", "delete_volume(restored)", 46),
       Stmt("assert", "backup_id", 48),
       Stmt("wait", "restored volume available", 51),
       Stmt("wait", "backup available", 49) >>

\* VolumesBackupsTest.restore_backup, lines 40-54.
RestoreBackup ==
    << Stmt("call", "restore_backup", 42),
       Stmt("addCleanup", "delete_volume(restored)", 46),
       Stmt("assert", "backup_id", 48),
       Stmt("wait", "backup available", 49),
       Stmt("wait", "restored volume available", 51) >>

\* test_volume_backup_create_get_detailed_list_restore_delete, lines 59-108.
TestRestoreDelete ==
    << Stmt("call", "create_volume", 74),
       Stmt("addCleanup", "delete_volume(source)", 75),
       Stmt("call", "create_backup", 81),
       Stmt("assert", "backup name", 85),
       Stmt("wait", "source volume available", 86),
       Stmt("call", "show_backup", 90),
       Stmt("assert", "backup name", 91),
       Stmt("assert", "backup description", 92),
       Stmt("assert", "backup container", 93),
       Stmt("call", "list_backups", 96),
       Stmt("assert", "backup listed", 97) >>
    \o RestoreBackup \o
    << Stmt("call", "show_volume", 102),
       Stmt("assert", "restored metadata", 107) >>

\* test_backup_create_attached_volume, lines 112-135.
TestAttachedVolume ==
    << Stmt("call", "create_volume", 119),
       Stmt("addCleanup", "delete_volume(source)", 120),
       Stmt("call", "get_test_validation_resources", 121),
       Stmt("call", "create_server", 123),
       Stmt("call", "attach_volume", 127),
       Stmt("call", "create_backup", 131),
       Stmt("wait", "source volume in-use", 133),
       Stmt("assert", "backup name", 135) >>

\* test_bootable_volume_backup_and_restore, lines 139-167.
TestBootableRestore ==
    << Stmt("call", "create_volume", 149),
       Stmt("call", "show_volume", 151),
       Stmt("assert", "bootable", 153),
       Stmt("call", "create_backup", 156),
       Stmt("wait", "source volume available", 157) >>
    \o RestoreBackup \o
    << Stmt("call", "show_volume", 164),
       Stmt("assert", "restored bootable", 167) >>

\* EndPointsTestJSON.test_update_endpoint, lines 115-150.
TestUpdateEndpoint ==
    << Stmt("call", "create_endpoint", 121),
       Stmt("addCleanup", "delete_endpoint", 126),
       Stmt("call", "create_service", 131),
       Stmt("call", "update_endpoint", 140),
       Stmt("assert", "service_id", 146),
       Stmt("assert", "interface", 147),
       Stmt("assert", "url", 148),
       Stmt("assert", "region", 149),
       Stmt("assert", "enabled", 150) >>

CleanupTests ==
    {"test_volume_backup_create_get_detailed_list_restore_delete",
     "test_backup_create_attached_volume",
     "test_bootable_volume_backup_and_restore",
     "test_update_endpoint"}

Body(t) ==
    CASE t = "test_volume_backup_create_get_detailed_list_restore_delete" ->
            TestRestoreDelete
      [] t = "test_backup_create_attached_volume" -> TestAttachedVolume
      [] t = "test_bootable_volume_backup_and_restore" -> TestBootableRestore
      [] t = "test_update_endpoint" -> TestUpdateEndpoint
      [] OTHER -> <<>>

\* The cleanup that runs next: the last one registered.
NextCleanup(stack) == Len(stack)

\* The stack without its i-th action.
Without(stack, i) == SubSeq(stack, 1, i - 1) \o SubSeq(stack, i + 1, Len(stack))

InitBK ==
    /\ bkTest \in CleanupTests
    /\ bpc = 1
    /\ bkPhase = "body"
    /\ bkOutcome = "running"
    /\ created = {}
    /\ cleanups = <<>>
    /\ registered = <<>>
    /\ executed = <<>>
    /\ cleanupErrors = {}
    /\ observed = <<>>

\* No test with cleanups runs.
IdleBK ==
    /\ bkTest = "off"
    /\ bpc = 1
    /\ bkPhase = "done"
    /\ bkOutcome = "running"
    /\ created = {}
    /\ cleanups = <<>>
    /\ registered = <<>>
    /\ executed = <<>>
    /\ cleanupErrors = {}
    /\ observed = <<>>

\* The statement the body is at.
AtStmt(op) ==
    /\ bkPhase = "body"
    /\ bpc <= Len(Body(bkTest))
    /\ Body(bkTest)[bpc].op = op

\* The body raises: the runner goes on to the cleanups.
Raise(kind) ==
    /\ bkOutcome' = kind
    /\ bkPhase' = "cleanup"
    /\ UNCHANGED <<bpc, created>>

\* A client call returns, or raises on a failed request.
BodyCall ==
    /\ AtStmt("call")
    /\ \/ /\ bpc' = bpc + 1
          /\ created' = created \cup {Body(bkTest)[bpc].arg}
          /\ UNCHANGED <<bkPhase, bkOutcome>>
       \/ Raise("TransportError")
    /\ UNCHANGED <<bkTest, cleanups, registered, executed, cleanupErrors>>
    /\ UNCHANGED observed
    /\ UNCHANGED notBK

\* An assertion passes or fails.
BodyAssert ==
    /\ AtStmt("assert")
    /\ \/ /\ bpc' = bpc + 1
          /\ UNCHANGED <<bkPhase, bkOutcome, created>>
       \/ Raise("AssertionError")
    /\ UNCHANGED <<bkTest, cleanups, registered, executed, cleanupErrors>>
    /\ UNCHANGED observed
    /\ UNCHANGED notBK

\* A status wait returns or times out.
BodyWait ==
    /\ AtStmt("wait")
    /\ \/ /\ bpc' = bpc + 1
          /\ observed' = Append(observed, Body(bkTest)[bpc].arg)
          /\ UNCHANGED <<bkPhase, bkOutcome, created>>
       \/ /\ Raise("TimeoutException")
          /\ UNCHANGED observed
    /\ UNCHANGED <<bkTest, cleanups, registered, executed, cleanupErrors>>
    /\ UNCHANGED notBK

\* addCleanup pushes the action on the cleanup stack.
BodyAddCleanup ==
    /\ AtStmt("addCleanup")
    /\ cleanups' = Append(cleanups, Body(bkTest)[bpc].arg)
    /\ registered' = Append(registered, Body(bkTest)[bpc].arg)
    /\ bpc' = bpc + 1
    /\ UNCHANGED <<bkTest, bkPhase, bkOutcome, created, executed, cleanupErrors>>
    /\ UNCHANGED observed
    /\ UNCHANGED notBK

\* The body returns: the test passes and the cleanups run.
BodyReturn ==
    /\ bkPhase = "body"
    /\ bpc > Len(Body(bkTest))
    /\ bkOutcome' = "passed"
    /\ bkPhase' = "cleanup"
    /\ UNCHANGED <<bkTest, bpc, created, cleanups, registered, executed, cleanupErrors>>
    /\ UNCHANGED observed
    /\ UNCHANGED notBK

\* The runner pops one cleanup and runs it; a cleanup that raises is
\* recorded and the remaining ones still run.
RunCleanup ==
    /\ bkPhase = "cleanup"
    /\ cleanups # <<>>
    /\ LET i == NextCleanup(cleanups)
       IN /\ executed' = Append(executed, cleanups[i])
          /\ cleanups' = Without(cleanups, i)
          /\ \E raised \in BOOLEAN :
                cleanupErrors' = IF raised THEN cleanupErrors \cup {cleanups[i]}
                                 ELSE cleanupErrors
    /\ UNCHANGED <<bkTest, bpc, bkPhase, bkOutcome, created, registered>>
    /\ UNCHANGED observed
    /\ UNCHANGED notBK

\* No cleanup is left: the test is over.
CleanupsDone ==
    /\ bkPhase = "cleanup"
    /\ cleanups = <<>>
    /\ bkPhase' = "done"
    /\ UNCHANGED <<bkTest, bpc, bkOutcome, created, cleanups, registered, executed,
                   cleanupErrors>>
    /\ UNCHANGED observed
    /\ UNCHANGED notBK

NextBK ==
    \/ BodyCall
    \/ BodyAssert
    \/ BodyWait
    \/ BodyAddCleanup
    \/ BodyReturn
    \/ RunCleanup
    \/ CleanupsDone

\* ------------------------------------------------ objects and schemas

SchemaNames ==
    {"create_volume_transfer", "common_show_volume_transfer",
     "show_volume_transfer", "list_volume_transfers_no_detail",
     "list_volume_transfers_with_detail", "delete_volume_transfer",
     "accept_volume_transfer"}

\* An item of a dict or list: an immutable value (string, number, bool) or a
\* reference to another object. A list is kept as a dict keyed "0", "1", ...
AtomSlot(s) == [ref |-> 0, atom |-> s]
RefSlot(a) == [ref |-> a, atom |-> ""]

\* Nested values, written as in the schema literals.
AtomT(s) == [kind |-> "atom", atom |-> s, ref |-> 0, items |-> <<>>]
RefT(a) == [kind |-> "ref", atom |-> "", ref |-> a, items |-> <<>>]
DictT(f) == [kind |-> "dict", atom |-> "", ref |-> 0, items |-> f]
List1(x) == [kind |-> "list", atom |-> "", ref |-> 0, items |-> ("0" :> x)]
List2(x, y) == [kind |-> "list", atom |-> "", ref |-> 0, items |-> ("0" :> x @@ "1" :> y)]

\* The nested value of the object at address a.
RECURSIVE Tree(_, _)
Tree(h, a) ==
    [kind |-> h[a].kind, atom |-> "", ref |-> 0,
     items |-> [k \in DOMAIN h[a].items |->
                    IF h[a].items[k].ref = 0
                    THEN AtomT(h[a].items[k].atom)
                    ELSE Tree(h, h[a].items[k].ref)]]

\* The objects an object refers to.
Kids(h, a) == {h[a].items[k].ref : k \in DOMAIN h[a].items} \ {0}

RECURSIVE ReachFrom(_, _, _)
ReachFrom(h, frontier, seen) ==
    IF frontier = {} THEN seen
    ELSE LET new == UNION {Kids(h, a) : a \in frontier} \ (seen \cup frontier)
         IN ReachFrom(h, new, seen \cup frontier)

\* The objects reachable from the object at address a, itself included.
Reachable(h, a) == ReachFrom(h, {a}, {})

\* Evaluation of a dict or list literal: new objects, innermost values as
\* written; a name inside the literal stays a reference to its object.
RECURSIVE Alloc(_, _), AllocItems(_, _, _, _)
AllocItems(h, t, keys, acc) ==
    IF keys = {} THEN [heap |-> h, items |-> acc]
    ELSE LET k == CHOOSE x \in keys : TRUE
             r == Alloc(h, t.items[k])
         IN AllocItems(r.heap, t, keys \ {k}, acc @@ (k :> r.slot))

Alloc(h, t) ==
    CASE t.kind = "atom" -> [heap |-> h, slot |-> AtomSlot(t.atom)]
      [] t.kind = "ref" -> [heap |-> h, slot |-> RefSlot(t.ref)]
      [] OTHER ->
            LET a == Len(h) + 1
                r == AllocItems(Append(h, [kind |-> t.kind, items |-> <<>>]),
                                t, DOMAIN t.items, <<>>)
            IN [heap |-> [r.heap EXCEPT ![a] = [kind |-> t.kind, items |-> r.items]],
                slot |-> RefSlot(a)]

\* Mutant: copy.copy, a new outer dict whose items are the base's objects.
ShallowCopy(h, a) == [heap |-> Append(h, h[a]), root |-> Len(h) + 1]

\* copy.deepcopy: a new object for every object reachable from a, the copies
\* referring to copies; immutable values are kept.
DeepCopy(h, a) ==
    LET R == Reachable(h, a)
        New(r) == Len(h) + Cardinality({x \in R : x <= r})
        Old(n) == CHOOSE r \in R : New(r) = n
        Copy(r) == [kind |-> h[r].kind,
                    items |-> [k \in DOMAIN h[r].items |->
                                 IF h[r].items[k].ref = 0
                                 THEN h[r].items[k]
                                 ELSE RefSlot(New(h[r].items[k].ref))]]
    IN [heap |-> [n \in 1..(Len(h) + Cardinality(R)) |->
                    IF n <= Len(h) THEN h[n] ELSE Copy(Old(n))],
        root |-> New(a)]

\* d[k] = v, also d.update({k: v}): the object at address a is changed in place.
SetItem(h, a, k, slot) ==
    [h EXCEPT ![a].items = [x \in DOMAIN @ \cup {k} |-> IF x = k THEN slot ELSE @[x]]]

\* d[k1][k2]...: the object a chain of subscripts leads to.
RECURSIVE Follow(_, _, _)
Follow(h, a, path) ==
    IF path = <<>> THEN a
    ELSE Follow(h, h[a].items[Head(path)].ref, Tail(path))

\* --- parameter_types and the v3.55 schemas (the base of the derivation)

UuidStringT == DictT("type" :> AtomT("string") @@ "format" :> AtomT("uuid"))
BooleanT == DictT("type" :> AtomT("boolean"))
StringT == DictT("type" :> AtomT("string"))
NullT == DictT("type" :> AtomT("null"))

\* parameter_types.uuid_or_null
UuidOrNullT == DictT("anyOf" :> List2(UuidStringT, NullT))

ObjectT(props, required) ==
    DictT("type" :> AtomT("object") @@ "properties" :> DictT(props)
          @@ "required" :> required)

ArrayT(items) == DictT("type" :> AtomT("array") @@ "items" :> items)

ResponseT(code, body) ==
    DictT("status_code" :> List1(AtomT(code)) @@ "response_body" :> body)

Props355 ==
    "id" :> UuidStringT
    @@ "name" :> DictT("type" :> List2(AtomT("string"), AtomT("null")))
    @@ "no_snapshots" :> BooleanT

CommonShow355T == ObjectT(Props355, List2(AtomT("id"), AtomT("name")))

Create355T ==
    ResponseT("202",
        ObjectT("transfer" :> ObjectT(Props355 @@ "auth_key" :> StringT,
                                      List2(AtomT("id"), AtomT("auth_key"))),
                List1(AtomT("transfer"))))

Show355T(common) ==
    ResponseT("200", ObjectT("transfer" :> common, List1(AtomT("transfer"))))

ListNoDetail355T ==
    ResponseT("200",
        ObjectT("transfers" :> ArrayT(ObjectT("id" :> UuidStringT, List1(AtomT("id")))),
                List1(AtomT("transfers"))))

ListWithDetail355T(common) ==
    ResponseT("200",
        ObjectT("transfers" :> ArrayT(common), List1(AtomT("transfers"))))

Delete355T == DictT("status_code" :> List1(AtomT("202")))

Accept355T ==
    ResponseT("202",
        ObjectT("transfer" :> ObjectT("id" :> UuidStringT, List1(AtomT("id"))),
                List1(AtomT("transfer"))))

\* --- the statements of the v3.57 module

NoValue == [from |-> "none", name |-> "", tree |-> AtomT("")]
ParameterType(n) == [from |-> "parameter_types", name |-> n, tree |-> AtomT("")]
ModuleObject(n) == [from |-> "module", name |-> n, tree |-> AtomT("")]
Literal(t) == [from |-> "literal", name |-> "", tree |-> t]

\* name = copy.deepcopy(transfers.name)
DeepcopyStmt(name, line) ==
    [op |-> "deepcopy", target |-> name, path |-> <<>>, key |-> "",
     value |-> NoValue, line |-> line]

\* name[path...].update({key: value}), or name[path...][key] = value
SetStmt(name, path, key, value, line) ==
    [op |-> "set", target |-> name, path |-> path, key |-> key,
     value |-> value, line |-> line]

TransferProperties == <<"response_body", "properties", "transfer", "properties">>

\* Mutant: the first edit assigns a new 'properties' dict in place of
\* updating the copied one.
CreateEditsReplacing ==
    << SetStmt("create_volume_transfer",
               <<"response_body", "properties", "transfer">>, "properties",
               Literal(DictT("destination_project_id" :> BooleanT)), 28),
       SetStmt("create_volume_transfer", TransferProperties,
               "source_project_id", Literal(UuidStringT), 31),
       SetStmt("create_volume_transfer", TransferProperties,
               "accepted", Literal(BooleanT), 34) >>

\* Lines 28-36.
CreateEdits ==
    << SetStmt("create_volume_transfer", TransferProperties,
               "destination_project_id", ParameterType("uuid_or_null"), 28),
       SetStmt("create_volume_transfer", TransferProperties,
               "source_project_id", Literal(UuidStringT), 31),
       SetStmt("create_volume_transfer", TransferProperties,
               "accepted", Literal(BooleanT), 34) >>

\* Mutant: the common schema gets a uuid-or-null schema of its own.
CommonShowEditsOwnType ==
    << SetStmt("common_show_volume_transfer", <<"properties">>,
               "destination_project_id", Literal(UuidOrNullT), 40),
       SetStmt("common_show_volume_transfer", <<"properties">>,
               "source_project_id", Literal(UuidStringT), 42),
       SetStmt("common_show_volume_transfer", <<"properties">>,
               "accepted", Literal(BooleanT), 44) >>

\* Lines 40-45.
CommonShowEdits ==
    << SetStmt("common_show_volume_transfer", <<"properties">>,
               "destination_project_id", ParameterType("uuid_or_null"), 40),
       SetStmt("common_show_volume_transfer", <<"properties">>,
               "source_project_id", Literal(UuidStringT), 42),
       SetStmt("common_show_volume_transfer", <<"properties">>,
               "accepted", Literal(BooleanT), 44) >>

\* Lines 27-61.
Module357 ==
    << DeepcopyStmt("create_volume_transfer", 27) >>
    \o CreateEdits \o
    << DeepcopyStmt("common_show_volume_transfer", 38) >>
    \o CommonShowEdits \o
    << DeepcopyStmt("show_volume_transfer", 47),
       SetStmt("show_volume_transfer", <<"response_body", "properties">>,
               "transfer", ModuleObject("common_show_volume_transfer"), 48),
       DeepcopyStmt("list_volume_transfers_no_detail", 51),
       DeepcopyStmt("list_volume_transfers_with_detail", 54),
       SetStmt("list_volume_transfers_with_detail",
               <<"response_body", "properties", "transfers">>,
               "items", ModuleObject("common_show_volume_transfer"), 56),
       DeepcopyStmt("delete_volume_transfer", 59),
       DeepcopyStmt("accept_volume_transfer", 61) >>

\* name = <literal>: a schema written out in its module.
DefineStmt(name, tree) ==
    [op |-> "define", target |-> name, path |-> <<>>, key |-> "",
     value |-> Literal(tree), line |-> 0]

\* Lines 18-19: parameter_types and the v3.55 transfers module, whose show
\* and list-with-detail schemas hold the v3.55 common schema (at address
\* common) itself, or a schema equal to it.
BaseModules(shared, common) ==
    LET c == IF shared THEN RefT(common) ELSE CommonShow355T
    IN << DefineStmt("uuid_or_null", UuidOrNullT),
          DefineStmt("common_show_volume_transfer", CommonShow355T),
          DefineStmt("create_volume_transfer", Create355T),
          DefineStmt("show_volume_transfer", Show355T(c)),
          DefineStmt("list_volume_transfers_no_detail", ListNoDetail355T),
          DefineStmt("list_volume_transfers_with_detail", ListWithDetail355T(c)),
          DefineStmt("delete_volume_transfer", Delete355T),
          DefineStmt("accept_volume_transfer", Accept355T) >>

\* The value of a v3.55 schema as its module defines it.
Base355T(n) ==
    CASE n = "common_show_volume_transfer" -> CommonShow355T
      [] n = "create_volume_transfer" -> Create355T
      [] n = "show_volume_transfer" -> Show355T(CommonShow355T)
      [] n = "list_volume_transfers_no_detail" -> ListNoDetail355T
      [] n = "list_volume_transfers_with_detail" -> ListWithDetail355T(CommonShow355T)
      [] n = "delete_volume_transfer" -> Delete355T
      [] OTHER -> Accept355T

\* The statements run by importing the v3.57 module.
Program ==
    BaseModules(aliased, v355["common_show_volume_transfer"]) \o Module357

BaseImported == ipc > Len(Program) - Len(Module357)

ImportDone == ipc = Len(Program) + 1

InitSC ==
    /\ aliased \in BOOLEAN
    /\ heap = <<>>
    /\ uuid_or_null = 0
    /\ v355 = [n \in SchemaNames |-> 0]
    /\ v357 = [n \in SchemaNames |-> 0]
    /\ ipc = 1
    /\ edits = 0
    /\ lastEdit = 0
    /\ touched = {}

\* The schema modules are not imported.
IdleSC ==
    /\ aliased = FALSE
    /\ heap = <<>>
    /\ uuid_or_null = 0
    /\ v355 = [n \in SchemaNames |-> 0]
    /\ v357 = [n \in SchemaNames |-> 0]
    /\ ipc = 0
    /\ edits = 0
    /\ lastEdit = 0
    /\ touched = {}

AtModuleStmt(op) ==
    /\ ipc \in 1..Len(Program)
    /\ Program[ipc].op = op

\* A schema literal of parameter_types or of the v3.55 module is evaluated
\* and bound to its name.
ImportDefine ==
    /\ AtModuleStmt("define")
    /\ LET stmt == Program[ipc]
           r == Alloc(heap, stmt.value.tree)
       IN /\ heap' = r.heap
          /\ IF stmt.target = "uuid_or_null"
             THEN uuid_or_null' = r.slot.ref /\ UNCHANGED v355
             ELSE v355' = [v355 EXCEPT ![stmt.target] = r.slot.ref]
                  /\ UNCHANGED uuid_or_null
    /\ ipc' = ipc + 1
    /\ UNCHANGED <<v357, edits, aliased, lastEdit, touched>>
    /\ UNCHANGED notSC

\* A deepcopy statement of the module binds the name to a copy of the base.
ImportDeepcopy ==
    /\ AtModuleStmt("deepcopy")
    /\ LET stmt == Program[ipc]
           r == DeepCopy(heap, v355[stmt.target])
       IN /\ heap' = r.heap
          /\ v357' = [v357 EXCEPT ![stmt.target] = r.root]
    /\ ipc' = ipc + 1
    /\ UNCHANGED <<uuid_or_null, v355, edits, aliased, lastEdit, touched>>
    /\ UNCHANGED notSC

\* An update or item assignment of the module changes a copied object in place.
ImportSet ==
    /\ AtModuleStmt("set")
    /\ LET stmt == Program[ipc]
           obj == Follow(heap, v357[stmt.target], stmt.path)
           r == CASE stmt.value.from = "parameter_types" ->
                        [heap |-> heap, slot |-> RefSlot(uuid_or_null)]
                  [] stmt.value.from = "module" ->
                        [heap |-> heap, slot |-> RefSlot(v357[stmt.value.name])]
                  [] OTHER -> Alloc(heap, stmt.value.tree)
       IN heap' = SetItem(r.heap, obj, stmt.key, r.slot)
    /\ ipc' = ipc + 1
    /\ UNCHANGED <<uuid_or_null, v355, v357, edits, aliased, lastEdit, touched>>
    /\ UNCHANGED notSC

\* The objects reachable from the v3.57 schemas.
Derived(h) == UNION {Reachable(h, v357[n]) : n \in {m \in SchemaNames : v357[m] # 0}}

\* The objects reachable from the v3.55 schemas.
Base(h) == UNION {Reachable(h, v355[n]) : n \in {m \in SchemaNames : v355[m] # 0}}

\* Where the object at address a is reachable from: the v3.57
\* common_show_volume_transfer or elsewhere, and parameter_types.uuid_or_null.
ReachableFrom(h, a) ==
    (IF a \in Reachable(h, v357["common_show_volume_transfer"])
     THEN {"common"} ELSE {"elsewhere"})
    \cup (IF a \in Reachable(h, uuid_or_null) THEN {"uuid_or_null"} ELSE {})

\* A user of the v3.57 module edits one of its schemas in place, at any
\* depth: an existing item is overwritten or a new one is added.
EditDerived ==
    /\ ImportDone
    /\ edits < MaxEdits
    /\ \E a \in Derived(heap) :
        \E k \in DOMAIN heap[a].items \cup {"edited"} :
            /\ heap' = SetItem(heap, a, k, AtomSlot("edited"))
            /\ lastEdit' = a
            /\ touched' = touched \cup ReachableFrom(heap, a)
    /\ edits' = edits + 1
    /\ UNCHANGED <<uuid_or_null, v355, v357, ipc, aliased>>
    /\ UNCHANGED notSC

NextSC ==
    \/ ImportDefine
    \/ ImportDeepcopy
    \/ ImportSet
    \/ EditDerived

\* ------------------------------------------- _verify_console_interaction

\* The calls of test_live_migration_serial_console made before the migration
\* (lines 335 and 336).
ConsoleCalls == 2

\* No console test runs.
IdleWS ==
    /\ wcall = 0
    /\ wpc = "off"
    /\ conns = <<>>
    /\ ws = 0
    /\ ticks = 0
    /\ found = FALSE
    /\ pending = "none"
    /\ wsFailure = "none"

InitWS ==
    /\ wcall = 0
    /\ wpc = "call"
    /\ conns = <<>>
    /\ ws = 0
    /\ ticks = 0
    /\ found = FALSE
    /\ pending = "none"
    /\ wsFailure = "none"

\* Lines 344-353: fetch the console url and open the first connection.
\* Either call may raise; nothing is open then and the exception propagates.
VerifyStart ==
    /\ wpc = "call" /\ wcall < ConsoleCalls
    /\ wcall' = wcall + 1
    /\ ticks' = 0
    /\ found' = FALSE
    /\ pending' = "none"
    /\ \E r \in {"ok", "get_remote_console", "create_websocket"} :
        IF r = "ok"
        THEN /\ conns' = <<"open">>
             /\ ws' = 1
             /\ wpc' = "while"
             /\ UNCHANGED wsFailure
        ELSE /\ conns' = <<>>
             /\ ws' = 0
             /\ wpc' = "raised"
             /\ wsFailure' = r
    /\ UNCHANGED notWS

\* Line 358: the loop condition.
LoopTest ==
    /\ wpc = "while"
    /\ wpc' = IF ~found /\ ticks <= MaxTicks THEN "send" ELSE "finally"
    /\ UNCHANGED <<wcall, conns, ws, ticks, found, pending, wsFailure>>
    /\ UNCHANGED notWS

\* Mutant: the handler gives up when the call has already reconnected.
HandlerReconnectsOnce(opened) == IF opened >= 2 THEN "raise" ELSE "reconnect"

\* Lines 363-366: the handler of a failed send or receive opens a new
\* connection, however many were opened before.
Handler(opened) == "reconnect"

\* Lines 360-362: send the data and read a frame; the frame may or may not
\* complete the echo of the data; either call may raise.
SendReceive ==
    /\ wpc = "send"
    /\ \E r \in {"echo", "other", "error"} :
        CASE r = "echo"  -> /\ found' = TRUE
                            /\ wpc' = "sleep"
                            /\ UNCHANGED pending
          [] r = "other" -> /\ wpc' = "sleep"
                            /\ UNCHANGED <<found, pending>>
          [] r = "error" -> /\ IF Handler(Len(conns)) = "reconnect"
                               THEN wpc' = "except" /\ UNCHANGED pending
                               ELSE wpc' = "finally" /\ pending' = "send_receive"
                            /\ UNCHANGED found
    /\ UNCHANGED <<wcall, conns, ws, ticks, wsFailure>>
    /\ UNCHANGED notWS

\* Line 366: ws is rebound; the connection it named is left as it is.
Replaced(cs, w) == cs

\* Line 366: create_websocket in the handler. When it raises, the exception
\* leaves the loop through the finally clause.
Reconnect ==
    /\ wpc = "except"
    /\ \E ok \in BOOLEAN :
        IF ok
        THEN /\ conns' = Append(Replaced(conns, ws), "open")
             /\ ws' = Len(conns) + 1
             /\ wpc' = "sleep"
             /\ UNCHANGED pending
        ELSE /\ wpc' = "finally"
             /\ pending' = "create_websocket"
             /\ UNCHANGED <<conns, ws>>
    /\ UNCHANGED <<wcall, ticks, found, wsFailure>>
    /\ UNCHANGED notWS

\* Lines 367-368.
Sleep ==
    /\ wpc = "sleep"
    /\ ticks' = ticks + 1
    /\ wpc' = "while"
    /\ UNCHANGED <<wcall, conns, ws, found, pending, wsFailure>>
    /\ UNCHANGED notWS

\* Lines 369-370: close the connection ws names, then re-raise or go on.
Finally ==
    /\ wpc = "finally"
    /\ conns' = [conns EXCEPT ![ws] = "closed"]
    /\ IF pending = "none"
       THEN wpc' = "assert" /\ UNCHANGED wsFailure
       ELSE wpc' = "raised" /\ wsFailure' = pending
    /\ UNCHANGED <<wcall, ws, ticks, found, pending>>
    /\ UNCHANGED notWS

\* Line 371.
AssertIn ==
    /\ wpc = "assert"
    /\ IF found
       THEN wpc' = "returned" /\ UNCHANGED wsFailure
       ELSE wpc' = "raised" /\ wsFailure' = "AssertionError"
    /\ UNCHANGED <<wcall, conns, ws, ticks, found, pending>>
    /\ UNCHANGED notWS

\* Lines 335-336: the next call follows a call that returned.
NextCall ==
    /\ wpc = "returned" /\ wcall < ConsoleCalls
    /\ wpc' = "call"
    /\ UNCHANGED <<wcall, conns, ws, ticks, found, pending, wsFailure>>
    /\ UNCHANGED notWS

NextWS ==
    \/ VerifyStart
    \/ LoopTest
    \/ SendReceive
    \/ Reconnect
    \/ Sleep
    \/ Finally
    \/ AssertIn
    \/ NextCall

\* ------------------------------------------------------ EndPointsTestJSON

EndpointTests == {"test_list_endpoints", "test_create_list_show_delete_endpoint"}

\* No endpoint test runs and the class is not set up.
IdleEP ==
    /\ store = {}
    /\ nextId = 1
    /\ setup_endpoints = <<>>
    /\ toRun = {}
    /\ epTest = "none"
    /\ epc = "off"
    /\ endpoint = 0
    /\ deleted = FALSE
    /\ listings = <<>>
    /\ epFailed = {}
    /\ others = 0

\* The identity service: create_endpoint, delete_endpoint, list_endpoints.
CreateEndpoint(st, id) == st \cup {id}
DeleteEndpoint(st, id) == st \ {id}
ListEndpoints(st) == st

\* Lines 41-50: resource_setup has created two endpoints.
InitEP ==
    /\ store = CreateEndpoint(CreateEndpoint({}, 1), 2)
    /\ nextId = 3
    /\ setup_endpoints = <<1, 2>>
    /\ toRun = EndpointTests
    /\ epTest = "none"
    /\ epc = "off"
    /\ endpoint = 0
    /\ deleted = FALSE
    /\ listings = <<>>
    /\ epFailed = {}
    /\ others = 0

\* Where a list_endpoints call falls with respect to lines 77 and 104.
Stage == IF endpoint = 0 THEN "before" ELSE IF deleted THEN "after" ELSE "between"

Fetched == [stage |-> Stage, ids |-> ListEndpoints(store)]

Ids(seq) == {seq[i] : i \in DOMAIN seq}

RECURSIVE Remove(_, _)
\* list.remove: without the first occurrence of x.
Remove(seq, x) ==
    IF seq = <<>> THEN <<>>
    ELSE IF Head(seq) = x THEN Tail(seq)
    ELSE <<Head(seq)>> \o Remove(Tail(seq), x)

\* The test runner starts one of the test methods that have not run.
StartEndpointTest ==
    /\ epTest = "none"
    /\ \E t \in toRun :
        /\ epTest' = t
        /\ toRun' = toRun \ {t}
        /\ epc' = IF t = "test_list_endpoints" THEN "list" ELSE "create"
    /\ UNCHANGED <<store, nextId, setup_endpoints, endpoint, deleted, listings,
                   epFailed, others>>
    /\ UNCHANGED notEP

EndTest(ok) ==
    /\ epTest' = "none"
    /\ epc' = "off"
    /\ epFailed' = IF ok THEN epFailed ELSE epFailed \cup {epTest}

\* Lines 62-71: test_list_endpoints.
TestListEndpoints ==
    /\ epc = "list"
    /\ listings' = Append(listings, Fetched)
    /\ LET missing_endpoints == Ids(setup_endpoints) \ Fetched.ids
       IN EndTest(Cardinality(missing_endpoints) = 0)
    /\ UNCHANGED <<store, nextId, setup_endpoints, toRun, endpoint, deleted, others>>
    /\ UNCHANGED notEP

\* Lines 74-87: create the endpoint, remember it in setup_endpoints; the
\* response carries the id, region and url of the request.
EPCreate ==
    /\ epc = "create"
    /\ store' = CreateEndpoint(store, nextId)
    /\ endpoint' = nextId
    /\ nextId' = nextId + 1
    /\ setup_endpoints' = Append(setup_endpoints, nextId)
    /\ epc' = "list_between"
    /\ UNCHANGED <<toRun, epTest, deleted, listings, epFailed, others>>
    /\ UNCHANGED notEP

\* Lines 89-91: the created endpoint is in the list of endpoints.
EPListBetween ==
    /\ epc = "list_between"
    /\ listings' = Append(listings, Fetched)
    /\ IF endpoint \in Fetched.ids
       THEN epc' = "show" /\ UNCHANGED <<epTest, epFailed>>
       ELSE EndTest(FALSE)
    /\ UNCHANGED <<store, nextId, setup_endpoints, toRun, endpoint, deleted, others>>
    /\ UNCHANGED notEP

\* Lines 94-101: show_endpoint; NotFound propagates when the id is unknown.
EPShow ==
    /\ epc = "show"
    /\ IF endpoint \in store
       THEN epc' = "delete" /\ UNCHANGED <<epTest, epFailed>>
       ELSE EndTest(FALSE)
    /\ UNCHANGED <<store, nextId, setup_endpoints, toRun, endpoint, deleted,
                   listings, others>>
    /\ UNCHANGED notEP

\* Mutant: the test deletes the first endpoint of setup_endpoints.
DeletedIdFirstSetup == Head(setup_endpoints)

\* The id line 104 passes to delete_endpoint.
DeletedId == endpoint

\* Lines 104-105: delete the endpoint and forget it.
EPDelete ==
    /\ epc = "delete"
    /\ store' = DeleteEndpoint(store, DeletedId)
    /\ setup_endpoints' = Remove(setup_endpoints, endpoint)
    /\ deleted' = TRUE
    /\ epc' = "list_after"
    /\ UNCHANGED <<nextId, toRun, epTest, endpoint, listings, epFailed, others>>
    /\ UNCHANGED notEP

\* Lines 108-110: the endpoint is no longer in the list of endpoints.
EPListAfter ==
    /\ epc = "list_after"
    /\ listings' = Append(listings, Fetched)
    /\ EndTest(endpoint \notin Fetched.ids)
    /\ UNCHANGED <<store, nextId, setup_endpoints, toRun, endpoint, deleted, others>>
    /\ UNCHANGED notEP

\* Another client of the identity service creates an endpoint of its own or
\* deletes one it created (ids of the test class are not known to it).
OtherClient ==
    /\ toRun # {} \/ epTest # "none"
    /\ others < MaxOther
    /\ others' = others + 1
    /\ \/ /\ store' = CreateEndpoint(store, nextId)
          /\ nextId' = nextId + 1
       \/ /\ \E id \in store \ (Ids(setup_endpoints) \cup {endpoint}) :
                store' = DeleteEndpoint(store, id)
          /\ UNCHANGED nextId
    /\ UNCHANGED <<setup_endpoints, toRun, epTest, epc, endpoint, deleted,
                   listings, epFailed>>
    /\ UNCHANGED notEP

NextEP ==
    \/ StartEndpointTest
    \/ TestListEndpoints
    \/ EPCreate
    \/ EPListBetween
    \/ EPShow
    \/ EPDelete
    \/ EPListAfter
    \/ OtherClient

\* ------------------------------------------------------ _migrate_server_to

\* Python's True and False as request values.
PyBool(b) == IF b THEN "True" ELSE "False"

\* The inputs of _migrate_server_to: the class of self, the flag
\* CONF.compute_feature_enabled.block_migration_for_live_migration, whether the
\* requested microversion is compatible with 2.24, and the arguments.
\* LiveAutoBlockMigrationV225Test requests 2.25 or later (line 375); the
\* serial-console test passes an explicit host and no volume_backed (line 338).
RequestInputs ==
    {[cls |-> c, flag |-> f, compatible |-> m, volume_backed |-> v, dest_host |-> d] :
        c \in {LiveMigrationTest}, f \in BOOLEAN, m \in BOOLEAN, v \in BOOLEAN,
        d \in Hosts \cup {None}}
    \cup
    {[cls |-> c, flag |-> f, compatible |-> m, volume_backed |-> v, dest_host |-> d] :
        c \in {LiveAutoBlockMigrationV225Test}, f \in BOOLEAN, m \in {FALSE},
        v \in BOOLEAN, d \in Hosts \cup {None}}
    \cup
    {[cls |-> c, flag |-> f, compatible |-> m, volume_backed |-> v, dest_host |-> d] :
        c \in {LiveMigrationRemoteConsolesV26Test}, f \in BOOLEAN, m \in BOOLEAN,
        v \in {FALSE}, d \in Hosts}

NoCall == [raised |-> "none", sent |-> <<>>]

IdleRQ ==
    /\ rqIn = [cls |-> LiveMigrationTest, flag |-> FALSE, compatible |-> FALSE,
               volume_backed |-> FALSE, dest_host |-> None]
    /\ rqPc = "off"
    /\ rqOut = NoCall

InitRQ ==
    /\ rqIn \in RequestInputs
    /\ rqPc = "call"
    /\ rqOut = NoCall

\* Line 62: getattr(self, 'block_migration', None).
GetAttr(c) == IF HasBlockMigration(c) THEN c.block_migration ELSE None

\* Lines 64-65: kwargs['disk_over_commit'] = False under the microversion test.
Kwargs(compatible) ==
    IF compatible THEN [disk_over_commit |-> "False"] ELSE <<>>

\* Mutant: block migration is chosen by the flag alone.
BlockMigrationByFlag(flag, volume_backed) == PyBool(flag)

\* Lines 66-68.
BlockMigration(flag, volume_backed) == PyBool(flag /\ ~volume_backed)

\* Lines 69-71: the keyword arguments of live_migrate_server.
Request(dest_host, block_migration, kwargs) ==
    [host |-> dest_host, block_migration |-> block_migration] @@ kwargs

\* Lines 60-71. The test of line 63 reads self.block_migration, which raises
\* AttributeError when no class of self defines it.
MigrateServerTo(in) ==
    LET block_migration == GetAttr(in.cls)
    IN IF ~HasBlockMigration(in.cls)
       THEN [raised |-> "AttributeError", sent |-> <<>>]
       ELSE IF in.cls.block_migration = None
       THEN [raised |-> "none",
             sent |-> <<Request(in.dest_host,
                                BlockMigration(in.flag, in.volume_backed),
                                Kwargs(in.compatible))>>]
       ELSE [raised |-> "none",
             sent |-> <<Request(in.dest_host, block_migration, <<>>)>>]

CallMigrateServerTo ==
    /\ rqPc = "call"
    /\ rqOut' = MigrateServerTo(rqIn)
    /\ rqPc' = "done"
    /\ UNCHANGED rqIn
    /\ UNCHANGED notRQ

NextRQ == CallMigrateServerTo

\* ------------------------------------------------------- specifications

Init == InitLM /\ IdleBK /\ IdleSC /\ IdleWS /\ IdleEP /\ IdleRQ

Next == NextLM

Spec == Init /\ [][Next]_vars

\* The tests with cleanups.
InitCleanupTests == IdleLM /\ InitBK /\ IdleSC /\ IdleWS /\ IdleEP /\ IdleRQ

SpecBK == InitCleanupTests /\ [][NextBK]_vars

\* The import of the v3.57 transfer schemas and later edits of them.
InitSchemas == IdleLM /\ IdleBK /\ InitSC /\ IdleWS /\ IdleEP /\ IdleRQ

SpecSC == InitSchemas /\ [][NextSC]_vars

\* The serial-console check.
InitConsole == IdleLM /\ IdleBK /\ IdleSC /\ InitWS /\ IdleEP /\ IdleRQ

SpecWS == InitConsole /\ [][NextWS]_vars

\* The endpoint tests and the identity service.
InitEndpoints == IdleLM /\ IdleBK /\ IdleSC /\ IdleWS /\ InitEP /\ IdleRQ

SpecEP == InitEndpoints /\ [][NextEP]_vars

\* One call of _migrate_server_to on each of its inputs.
InitRequests == IdleLM /\ IdleBK /\ IdleSC /\ IdleWS /\ IdleEP /\ InitRQ

SpecRQ == InitRequests /\ [][NextRQ]_vars

\* Fairness: the waiter is a loop of the running test; its steps are taken.
FairLM == Spec /\ WF_vars(WaitPoll) /\ WF_vars(WaitSleep)

\* ------------------------------------------------------------------ claims

\* A _live_migrate call has returned without raising.
LMReturned == pc \in {"after1", "passed"}

\* C1: whenever _live_migrate is called with a target_host that is not None
\* and returns without raising, the host reported by the flow's final host
\* query equals target_host.
C1_ExplicitTargetReached ==
    LMReturned /\ lmTarget # None => reportedHost = lmTarget

C1_Witness ==
    pc = "passed" /\ flow = 1 /\ lmTarget \in Hosts /\ reportedHost = lmTarget

\* C2: whenever _live_migrate is called with target_host None and returns
\* without raising, the host reported after the status wait differs from the
\* host the flow read for the server before it sent the live-migrate request.
C2_NoTargetHostChanged ==
    LMReturned /\ lmTarget = None =>
        /\ lmSource \in Hosts
        /\ reportedHost \in Hosts
        /\ reportedHost # lmSource

C2_Witness ==
    pc = "passed" /\ lmTarget = None /\ lmSource \in Hosts /\ reportedHost # lmSource

\* The positions in the listing of the records correlated to the server.
Correlated(list) == {i \in DOMAIN list : list[i].instance_uuid = ServerId}

\* C3: when the final host placement does not match the expected
\* post-condition, the failure message holds every record of the listing
\* whose instance_uuid is the server id, in listing order, and no record of
\* another instance.
C3_AssertionMessageRecords ==
    failure.kind = "AssertionError" =>
        LET recs == failure.msg.records
        IN /\ failure.msg.server = ServerId
           /\ \A i \in Correlated(migration_list) :
                \E j \in DOMAIN recs : recs[j] = migration_list[i]
           /\ \A j \in DOMAIN recs : recs[j].instance_uuid = ServerId
           /\ Len(recs) = Cardinality(Correlated(migration_list))
           /\ \A j1, j2 \in DOMAIN recs : j1 < j2 => recs[j1].id < recs[j2].id

C3_Witness ==
    /\ failure.kind = "AssertionError"
    /\ Len(failure.msg.records) >= 2
    /\ \E i \in DOMAIN migration_list : migration_list[i].instance_uuid = OtherId

\* The status wait of _live_migrate (line 80) has timed out.
LMWaitTimedOut == wres = "timeout" /\ wret = "lm_list" /\ pc = "failed"

\* C4, as claimed: when the status wait inside _live_migrate times out, the
\* reported failure includes the migration records correlated to the server.
C4_TimeoutIncludesRecords ==
    LMWaitTimedOut =>
        \A i \in Correlated(migrations) :
            \E j \in DOMAIN failure.msg.records :
                failure.msg.records[j] = migrations[i]

\* C4, amended: when the status wait inside _live_migrate times out, the
\* failure is the waiter's timeout error, raised before list_migrations is
\* called: it carries no migration record.
C4_TimeoutCarriesNoRecords ==
    LMWaitTimedOut =>
        /\ failure.kind = "TimeoutException"
        /\ failure.msg.records = <<>>
        /\ migration_list = <<>>
        /\ msg = NoMsg

C4_Witness ==
    LMWaitTimedOut /\ Correlated(migrations) # {} /\ failure.kind = "TimeoutException"

\* C5: with live_migrate_back_and_forth, _test_live_migration runs the flow
\* again with the original source host as explicit target, only after the
\* first flow has passed, and a passing test ends with the server reported
\* on the host it started on.
C5_BackAndForth ==
    /\ flow = 2 =>
        /\ conf.live_migrate_back_and_forth
        /\ passed1
        /\ lmTarget = testSource
        /\ testSource = startHost
    /\ pc = "passed" /\ entry = "_test_live_migration"
            /\ conf.live_migrate_back_and_forth =>
        /\ flow = 2
        /\ reportedHost = startHost

C5_Witness ==
    pc = "passed" /\ flow = 2 /\ reportedHost = startHost /\ srv.host = startHost

\* C7: for a resource whose status is the target after k polling intervals,
\* and a deadline greater than k times the interval, the waiter returns
\* successfully, having polled at least k times, before the deadline.
C7_WaiterCorrect ==
    /\ [](wres = "ok" =>
            \E k \in tgtAt :
                polls >= k /\ elapsed = k * Interval /\ elapsed <= Deadline)
    /\ [](\A k \in tgtAt : Deadline > k * Interval => wres # "timeout")
    /\ (pc = "wait" /\ \E k \in tgtAt : Deadline > k * Interval) ~> (wres = "ok")

C7_Witness ==
    wres = "ok" /\ polls >= 2 /\ \E k \in tgtAt : k >= 1 /\ Deadline > k * Interval

\* C8: for a resource whose status never reaches the target the waiter
\* always terminates: it fails with a timeout error once the elapsed time
\* exceeds the deadline, never polls on after it, and the timeout is a
\* failure of another kind than an assertion mismatch.
C8_WaiterTimeout ==
    /\ [](pc = "wait" => elapsed <= Deadline)
    /\ [](wres = "timeout" =>
            /\ elapsed > Deadline
            /\ pc = "failed"
            /\ failure.kind = "TimeoutException"
            /\ failure.kind # "AssertionError")
    /\ [](wres = "ok" => tgtAt # {})
    /\ (pc = "wait") ~> (pc # "wait")
    /\ (pc = "wait") ~> (wres = "ok" \/ (wres = "timeout" /\ pc = "failed"))

C8_Witness ==
    wres = "timeout" /\ tgtAt = {} /\ failure.kind = "TimeoutException"

Reverse(seq) == [i \in 1..Len(seq) |-> seq[Len(seq) + 1 - i]]

Positions(seq, x) == {i \in DOMAIN seq : seq[i] = x}

\* C6: the cleanup actions registered during a test run in reverse order of
\* registration, each exactly once, whether the body passes or raises; in
\* test_volume_backup_create_get_detailed_list_restore_delete the deletion of
\* the restored volume runs before the deletion of the source volume, also
\* when an assertion or wait after the registration fails.
C6_CleanupOrder ==
    /\ executed \o Reverse(cleanups) = Reverse(registered)
    /\ bkPhase = "done" => cleanups = <<>> /\ executed = Reverse(registered)
    /\ /\ bkPhase = "done"
       /\ bkTest = "test_volume_backup_create_get_detailed_list_restore_delete"
       /\ "restore_backup" \in created
       => \E i, j \in DOMAIN executed :
            /\ Positions(executed, "delete_volume(restored)") = {i}
            /\ Positions(executed, "delete_volume(source)") = {j}
            /\ i < j

C6_Witness ==
    /\ bkPhase = "done"
    /\ bkTest = "test_volume_backup_create_get_detailed_list_restore_delete"
    /\ bkOutcome = "TimeoutException"
    /\ registered = <<"delete_volume(source)", "delete_volume(restored)">>
    /\ executed = <<"delete_volume(restored)", "delete_volume(source)">>
    /\ cleanupErrors = {"delete_volume(restored)"}

\* The part of a nested value a chain of keys leads to.
RECURSIVE At(_, _)
At(t, path) == IF path = <<>> THEN t ELSE At(t.items[Head(path)], Tail(path))

\* A nested value with the part at a chain of keys replaced.
RECURSIVE SetAt(_, _, _)
SetAt(t, path, sub) ==
    IF path = <<>> THEN sub
    ELSE [t EXCEPT !.items[Head(path)] = SetAt(@, Tail(path), sub)]

\* The attributes microversion 3.57 declares (lines 21-25), with their types.
AddedProperties ==
    "destination_project_id" :> UuidOrNullT
    @@ "source_project_id" :> UuidStringT
    @@ "accepted" :> BooleanT

WithAdded(props) == [props EXCEPT !.items = AddedProperties @@ @]

\* The value of a v3.57 schema.
Schema357T(n) == Tree(heap, v357[n])

ShowTransfer == <<"response_body", "properties", "transfer">>
ListItems == <<"response_body", "properties", "transfers", "items">>

\* C9: once the v3.57 module is imported, every v3.57 transfer schema equals
\* its v3.55 base except for the declared edits: the transfer properties of
\* create_volume_transfer and the properties of common_show_volume_transfer
\* additionally hold destination_project_id (uuid or null), source_project_id
\* (string, uuid format) and accepted (boolean); show_volume_transfer and
\* list_volume_transfers_with_detail differ from their base only in the
\* transfer/items sub-schema, which is the v3.57 common_show_volume_transfer;
\* the three other schemas equal their base; no base key is removed or changed.
C9_DerivedEqualsBasePlusEdits ==
    ImportDone /\ edits = 0 =>
        LET common == Schema357T("common_show_volume_transfer")
            create == Schema357T("create_volume_transfer")
            baseCommon == Base355T("common_show_volume_transfer")
            baseCreate == Base355T("create_volume_transfer")
        IN /\ create = SetAt(baseCreate, TransferProperties,
                             WithAdded(At(baseCreate, TransferProperties)))
           /\ common = SetAt(baseCommon, <<"properties">>,
                             WithAdded(At(baseCommon, <<"properties">>)))
           /\ Schema357T("show_volume_transfer")
                = SetAt(Base355T("show_volume_transfer"), ShowTransfer, common)
           /\ Schema357T("list_volume_transfers_with_detail")
                = SetAt(Base355T("list_volume_transfers_with_detail"), ListItems, common)
           /\ \A n \in {"list_volume_transfers_no_detail", "delete_volume_transfer",
                        "accept_volume_transfer"} :
                Schema357T(n) = Base355T(n)
           /\ \A k \in DOMAIN At(baseCreate, TransferProperties).items :
                /\ k \in DOMAIN At(create, TransferProperties).items
                /\ At(create, TransferProperties).items[k]
                     = At(baseCreate, TransferProperties).items[k]
           /\ \A k \in DOMAIN baseCommon.items["properties"].items :
                /\ k \in DOMAIN common.items["properties"].items
                /\ common.items["properties"].items[k]
                     = baseCommon.items["properties"].items[k]

C9_Witness ==
    /\ ImportDone /\ edits = 0
    /\ "accepted" \in DOMAIN At(Schema357T("show_volume_transfer"),
                                ShowTransfer \o <<"properties">>).items
    /\ "no_snapshots" \in DOMAIN At(Schema357T("create_volume_transfer"),
                                    TransferProperties).items

\* C10: no v3.57 transfer schema shares a nested object with a v3.55 schema:
\* during the module's own edits and after any later in-place edit of a
\* v3.57 schema at any depth, every v3.55 schema is as its module defined it.
C10_BaseUntouched ==
    /\ Derived(heap) \cap Base(heap) = {}
    /\ BaseImported =>
        \A n \in SchemaNames : Tree(heap, v355[n]) = Base355T(n)

C10_Witness ==
    /\ ImportDone
    /\ edits >= 1
    /\ lastEdit \in Derived(heap)
    /\ \A n \in SchemaNames : lastEdit # v357[n]
    /\ "edited" \in DOMAIN heap[lastEdit].items
    /\ \A n \in SchemaNames : Tree(heap, v355[n]) = Base355T(n)

\* A call of _verify_console_interaction is over.
ConsoleCallOver == wpc \in {"returned", "raised"}

\* C11 as stated: a call opens at most one replacement connection, and a
\* send or receive failure after that propagates to the caller.
C11_ReconnectsOnce == Len(conns) <= 2

\* C11, amended: every failed send or receive of the loop is answered by a
\* new connection, at most one per loop iteration and so at most as many as
\* the time budget has iterations; a send or receive failure never reaches
\* the caller.
C11_ReconnectsOnEveryFailure ==
    /\ wpc # "off" =>
        /\ Len(conns) <= 1 + ticks + (IF wpc = "sleep" THEN 1 ELSE 0)
        /\ Len(conns) <= MaxTicks + 2
    /\ pending # "send_receive"
    /\ wsFailure # "send_receive"

C11_Witness ==
    /\ wpc = "returned"
    /\ Len(conns) = 3
    /\ found

\* C19: when a call of _verify_console_interaction returns or raises, every
\* connection it opened is closed.
C19_EveryConnectionClosed ==
    ConsoleCallOver => \A i \in DOMAIN conns : conns[i] = "closed"

\* C12: the id of the endpoint created at line 77 and deleted at line 104 is
\* in every list_endpoints result fetched between the two calls and in none
\* fetched after the delete; the list assertions of the tests do not fail.
C12_ListedExactlyWhileItExists ==
    /\ \A i \in DOMAIN listings :
        /\ listings[i].stage = "between" => endpoint \in listings[i].ids
        /\ listings[i].stage = "after" => endpoint \notin listings[i].ids
    /\ epFailed = {}

C12_Witness ==
    /\ toRun = {} /\ epTest = "none" /\ deleted
    /\ \E i, j, k \in DOMAIN listings :
        /\ i < j /\ j < k
        /\ listings[i].stage = "between"
        /\ listings[j].stage = "after"
        /\ listings[k].stage = "after"
        /\ listings[k].ids # listings[j].ids

\* The events of kind e in the trace.
EventsOf(e) == {i \in DOMAIN trace : trace[i].ev = e}

\* C13: the host query of the final assertion comes after the live-migrate
\* request of the same _live_migrate call and after its status wait returned
\* the expected state; with state 'PAUSED' every request comes after
\* pause_server and after the server was observed PAUSED; the server is in
\* the expected state when the request is sent and when the wait returns.
C13_QueryAfterRequestAndWait ==
    /\ \A i \in EventsOf("final_host_query") :
        \E j \in EventsOf("live_migrate"), k \in EventsOf("wait_returned") :
            /\ j < k /\ k < i
            /\ trace[k].arg = state
            /\ trace[j].arg = state
            /\ \A m \in (j + 1)..(i - 1) :
                trace[m].ev \notin {"live_migrate", "final_host_query"}
    /\ state = "PAUSED" =>
        \A j \in EventsOf("live_migrate") :
            \E a \in EventsOf("pause_server"), b \in EventsOf("wait_returned") :
                /\ a < b /\ b < j
                /\ trace[b].arg = "PAUSED"
                /\ trace[j].arg = "PAUSED"

C13_Witness ==
    /\ state = "PAUSED" /\ pc = "passed" /\ flow = 2
    /\ Cardinality(EventsOf("final_host_query")) = 2
    /\ Cardinality(EventsOf("pause_server")) = 1

\* C14: for a class whose block_migration is None the request carries
\* block_migration = (flag and not volume_backed) and disk_over_commit=False
\* exactly when the microversion is compatible with 2.24; for 'auto' it
\* carries block_migration='auto' and no disk_over_commit; a volume-backed
\* server is never migrated with block_migration=True.
C14_RequestParameters ==
    rqPc = "done" /\ HasBlockMigration(rqIn.cls) =>
        /\ Len(rqOut.sent) = 1
        /\ LET r == rqOut.sent[1]
           IN /\ r.host = rqIn.dest_host
              /\ rqIn.cls.block_migration = None =>
                    /\ r.block_migration = PyBool(rqIn.flag /\ ~rqIn.volume_backed)
                    /\ ("disk_over_commit" \in DOMAIN r) = rqIn.compatible
                    /\ rqIn.compatible => r.disk_over_commit = "False"
              /\ rqIn.cls.block_migration = "auto" =>
                    /\ r.block_migration = "auto"
                    /\ "disk_over_commit" \notin DOMAIN r
              /\ rqIn.volume_backed => r.block_migration # "True"

C14_Witness ==
    /\ rqPc = "done"
    /\ rqIn.cls = LiveMigrationTest
    /\ rqIn.flag /\ rqIn.volume_backed /\ rqIn.compatible
    /\ Len(rqOut.sent) = 1
    /\ rqOut.sent[1].block_migration = "False"
    /\ rqOut.sent[1].disk_over_commit = "False"

\* C17: every call of _migrate_server_to, for every class deriving from
\* LiveMigrationTestBase, sends exactly one live-migrate request and does
\* not fail before sending it.
C17_AlwaysOneRequest ==
    rqPc = "done" => rqOut.raised = "none" /\ Len(rqOut.sent) = 1

\* restore_backup has returned to the test that called it.
RestoreReturned ==
    \E i \in DOMAIN Body(bkTest) :
        /\ Body(bkTest)[i] = RestoreBackup[Len(RestoreBackup)]
        /\ bpc > i

\* The elements of a sequence.
Elems(seq) == {seq[i] : i \in DOMAIN seq}

\* C15: once the restore request has returned, the deletion of the restored
\* volume is registered before any assertion or wait runs (the only state
\* between the two is the registration about to run); restore_backup returns
\* only after the backup and then the restored volume were observed
\* 'available'; and however the test ends, the deletion has been run.
C15_RestoreRegisteredThenWaits ==
    /\ "restore_backup" \in created =>
        \/ "delete_volume(restored)" \in Elems(registered)
        \/ /\ AtStmt("addCleanup")
           /\ Body(bkTest)[bpc].arg = "delete_volume(restored)"
           /\ Body(bkTest)[bpc - 1].arg = "restore_backup"
           /\ "backup available" \notin Elems(observed)
    /\ RestoreReturned =>
        \E i, j \in DOMAIN observed :
            /\ i < j
            /\ observed[i] = "backup available"
            /\ observed[j] = "restored volume available"
    /\ Elems(observed) \cap {"backup available", "restored volume available"} # {} =>
        "delete_volume(restored)" \in Elems(registered)
    /\ bkPhase = "done" /\ "restore_backup" \in created =>
        "delete_volume(restored)" \in Elems(executed)

C15_Witness ==
    /\ bkPhase = "done"
    /\ bkOutcome = "TimeoutException"
    /\ "restore_backup" \in created
    /\ "backup available" \in Elems(observed)
    /\ "restored volume available" \notin Elems(observed)
    /\ "delete_volume(restored)" \in Elems(executed)

\* C16: whenever _live_migrate is past its status wait (fetching the listing
\* or evaluating the host assertion), the migration it requested has been
\* started and finished by the remote: the wait did not succeed on the
\* steady-state status the server had before it entered MIGRATING.
C16_WaitCoversTheMigration ==
    pc \in {"lm_list", "lm_assert"} => srv.task = "none"

\* The v3.57 common_show_volume_transfer and the transfer properties of the
\* v3.57 create_volume_transfer, as objects.
CommonObj == v357["common_show_volume_transfer"]
CreateProps == Follow(heap, v357["create_volume_transfer"], TransferProperties)

\* The three views of the common schema have one value.
ThreeEqual ==
    /\ Tree(heap, Follow(heap, v357["show_volume_transfer"], ShowTransfer))
         = Tree(heap, CommonObj)
    /\ Tree(heap, Follow(heap, v357["list_volume_transfers_with_detail"], ListItems))
         = Tree(heap, CommonObj)

\* The transfer properties of create_volume_transfer as the import left them.
CreatePropsUnchanged ==
    Tree(heap, CreateProps)
        = WithAdded(At(Base355T("create_volume_transfer"), TransferProperties))

\* C18 as stated: after any in-place edits made through the common schema,
\* the three views are equal and the transfer properties of
\* create_volume_transfer are unchanged.
C18_CreateUntouchedByCommonEdits ==
    ImportDone /\ "elsewhere" \notin touched =>
        ThreeEqual /\ CreatePropsUnchanged

\* C18, amended: show's transfer, list-with-detail's items and the common
\* schema are one object, so they are equal after any edit made through them;
\* create's transfer properties are another object, but its
\* destination_project_id is parameter_types.uuid_or_null, the object the
\* common schema's destination_project_id also is: an edit through the three
\* leaves create's transfer properties unchanged unless it is made inside
\* that object.
C18_SharedCommonAndParameterType ==
    ImportDone /\ "elsewhere" \notin touched =>
        /\ Follow(heap, v357["show_volume_transfer"], ShowTransfer) = CommonObj
        /\ Follow(heap, v357["list_volume_transfers_with_detail"], ListItems) = CommonObj
        /\ ThreeEqual
        /\ CreateProps \notin Reachable(heap, CommonObj)
        /\ heap[CreateProps].items["destination_project_id"].ref = uuid_or_null
        /\ edits = 0 =>
            heap[CommonObj].items["properties"].ref # 0
            /\ heap[heap[CommonObj].items["properties"].ref]
                 .items["destination_project_id"].ref = uuid_or_null
        /\ "uuid_or_null" \notin touched => CreatePropsUnchanged

C18_Witness ==
    /\ ImportDone
    /\ touched = {"common"}
    /\ lastEdit = heap[CommonObj].items["properties"].ref
    /\ "edited" \in DOMAIN heap[lastEdit].items
    /\ "edited" \in DOMAIN Tree(heap, Follow(heap, v357["show_volume_transfer"],
                                             ShowTransfer)).items["properties"].items
    /\ CreatePropsUnchanged

====
